---- MODULE Spec2Model ----
(***************************************************************************)
(* Interactive particle Christmas tree: the scene state machine of         *)
(* components/ChristmasTree.tsx (explode flag, zoomed photo id, physics    *)
(* step, hit test), the React state of App.tsx that feeds it, and the      *)
(* gesture classifier of services/gestureService.                          *)
(*                                                                         *)
(* Numbers.  The program computes in IEEE doubles.  The model holds every  *)
(* quantity in fixed point and rounds each product to the nearest unit:    *)
(*   coordinates   in 1/PosScale  pixel                                    *)
(*   opacities     in 1/OpScale                                            *)
(*   the rotation  in 1/RotScale  radian                                   *)
(*   cos and sin   in 1/TrigScale                                          *)
(*   gesture distances and the cursor in 1/NormScale                       *)
(*                                                                         *)
(* React.  A state setter only queues a request; the request is applied by *)
(* the next render.  A render that follows a DOM event handler (mouse      *)
(* down, button click) is synchronous: it is the very next step.  A render *)
(* that follows a request made in an animation-frame callback, an image    *)
(* load callback or a passive effect comes later, and animation frames may *)
(* run before it.  The passive effects of a render run together, in        *)
(* declaration order, after the commit and before the next render.         *)
(*                                                                         *)
(* Photo ids.  Math.random().toString(36).substr(2, 9) is taken to return  *)
(* a non-empty string that no earlier photo object got.                    *)
(***************************************************************************)
EXTENDS Integers, Sequences, FiniteSets, TLC

VARIABLES
  isExploded,        \* App state isExploded, as of the last render
  explodeReq,        \* queued setIsExploded request: <<>> or <<value>>
  gestureState,      \* App state gestureState, as of the last render
  gestureReq,        \* queued setGestureState request: <<>> or <<result>>
  photos,            \* App state photos, as of the last render
  photosReq,         \* queued setPhotos result: <<>> or <<list>>
  due,               \* passive effects of the last render not yet run
  tickExploded,      \* isExploded captured by the scheduled tick callback
  particles,         \* particlesRef.current (the tracked particles)
  particleCount,     \* particlesRef.current.length
  photoObjects,      \* photoObjectsRef.current
  rotation,          \* rotationRef.current
  zoomedPhotoId,     \* zoomedPhotoIdRef.current, NoId for null
  isMobile,          \* ChristmasTree state isMobile
  dimensions,        \* ChristmasTree state dimensions
  canvas,            \* canvas.width / canvas.height
  handLandmarker,    \* gestureService: the model is initialised
  loopRunning,       \* App: the detection loop has been started
  syncPending,       \* a DOM event handler queued a request: React renders next
  cancelled,         \* a cancel was handled; no primary click, OPEN_PALM or
                     \* PINCH result has arrived since
  nextId,            \* number of photo ids generated so far
  resizeReq,         \* queued setIsMobile/setDimensions request: <<>> or <<mobile>>
  frames,            \* animation-frame callbacks of the render loop that are
                     \* scheduled, oldest first; ref marks requestRef.current
  mounted,           \* the application is mounted
  pinchRuns,         \* runs of the click logic by the gesture effect since the
                     \* last gesture result was rendered
  nEvents,           \* external events delivered so far
  nPublished,        \* gesture results published so far
  nTicks,            \* runs of animation frames so far
  last,              \* the step just taken, with what it read
  probe              \* argument of a function applied on its own

vars == << isExploded, explodeReq, gestureState, gestureReq, photos, photosReq,
           due, tickExploded, particles, particleCount, photoObjects, rotation,
           zoomedPhotoId, isMobile, dimensions, canvas, handLandmarker,
           loopRunning, syncPending, cancelled, nextId, nEvents, nPublished, nTicks,
           last, probe, resizeReq, frames, mounted, pinchRuns >>

----------------------------------------------------------------------------
(* Bounds of the exploration *)

MaxEvents == 4
MaxTicks == 2
IdleFrames == 14
TrackStride == 750
MaxEaseSteps == 200

----------------------------------------------------------------------------
(* Number representation *)

PosScale == 10
OpScale == 10000
RotScale == 1000
TrigScale == 10000
NormScale == 100
EaseScale == 100000

Abs(a) == IF a >= 0 THEN a ELSE -a

\* a / b rounded to the nearest integer (b > 0), halves away from zero
RoundDiv(a, b) ==
  IF a >= 0 THEN (2 * a + b) \div (2 * b) ELSE -((2 * (-a) + b) \div (2 * b))

\* Math.cos / Math.sin of r/RotScale radians, in 1/TrigScale (Taylor
\* polynomial, exact to the unit for the angles the bounds allow)
Cos(r) ==
  TrigScale - RoundDiv(r * r, 200) + RoundDiv(((r * r) * (r * r)) \div 24, 100000000)

Sin(r) == 10 * r - RoundDiv(r * r * r, 600000)

----------------------------------------------------------------------------
(* Program constants *)

FOCAL_LENGTH == 800
PHOTO_WIDTH == 120
ZOOM_OFFSET == 250
EASE_PERCENT == 5
ROT_STEP_EXPLODED == 1
ROT_STEP_COLLAPSED == 3
PUSH_FACTOR == 3
COUNT_MOBILE == 1200
COUNT_DESKTOP == 1500
MOBILE_BREAKPOINT == 768

NoId == 0

PARTICLE_COUNT(mobile) == IF mobile THEN COUNT_MOBILE ELSE COUNT_DESKTOP

----------------------------------------------------------------------------
(* Physics step: updatePhysics *)

\* an easing factor ten times smaller
Ease_Sluggish(cur, target) == cur + RoundDiv((target - cur) * EASE_PERCENT, 1000)

\* p.x += (tx - p.x) * ease
Ease(cur, target) == cur + RoundDiv((target - cur) * EASE_PERCENT, 100)

\* a rotation increment that ignores the zoomed id
RotationStep_IgnoresZoom(zoomed, exploded) ==
  IF exploded THEN ROT_STEP_EXPLODED ELSE ROT_STEP_COLLAPSED

\* the rotation increment of one step
RotationStep(zoomed, exploded) ==
  IF zoomed # NoId THEN 0
  ELSE IF exploded THEN ROT_STEP_EXPLODED ELSE ROT_STEP_COLLAPSED

\* particles that ease toward the rest position when exploded
ParticleTarget_Swapped(p, exploded) ==
  [x |-> IF exploded THEN p.baseX ELSE p.targetX,
   y |-> IF exploded THEN p.baseY ELSE p.targetY,
   z |-> IF exploded THEN p.baseZ ELSE p.targetZ]

\* the position a particle eases toward
ParticleTarget(p, exploded) ==
  [x |-> IF exploded THEN p.targetX ELSE p.baseX,
   y |-> IF exploded THEN p.targetY ELSE p.baseY,
   z |-> IF exploded THEN p.targetZ ELSE p.baseZ]

ParticleStep(p, exploded) ==
  LET t == ParticleTarget(p, exploded)
  IN  [p EXCEPT !.x = Ease(p.x, t.x), !.y = Ease(p.y, t.y), !.z = Ease(p.z, t.z)]

\* non-zoomed photos pushed away along z as well
PhotoTarget_PushZ(p, zoomed, exploded) ==
  IF zoomed = p.id
    THEN [x |-> 0, y |-> 0, z |-> (-FOCAL_LENGTH + ZOOM_OFFSET) * PosScale,
          opacity |-> OpScale]
  ELSE IF zoomed # NoId
    THEN [x |-> p.targetX * PUSH_FACTOR, y |-> p.targetY * PUSH_FACTOR,
          z |-> p.targetZ * PUSH_FACTOR, opacity |-> 0]
  ELSE [x |-> IF exploded THEN p.targetX ELSE p.baseX,
        y |-> IF exploded THEN p.targetY ELSE p.baseY,
        z |-> IF exploded THEN p.targetZ ELSE p.baseZ,
        opacity |-> IF exploded THEN OpScale ELSE 0]

\* the position and opacity a photo eases toward
PhotoTarget(p, zoomed, exploded) ==
  IF zoomed = p.id
    THEN [x |-> 0, y |-> 0, z |-> (-FOCAL_LENGTH + ZOOM_OFFSET) * PosScale,
          opacity |-> OpScale]
  ELSE IF zoomed # NoId
    THEN [x |-> p.targetX * PUSH_FACTOR, y |-> p.targetY * PUSH_FACTOR,
          z |-> p.targetZ, opacity |-> 0]
  ELSE [x |-> IF exploded THEN p.targetX ELSE p.baseX,
        y |-> IF exploded THEN p.targetY ELSE p.baseY,
        z |-> IF exploded THEN p.targetZ ELSE p.baseZ,
        opacity |-> IF exploded THEN OpScale ELSE 0]

PhotoStep(p, zoomed, exploded) ==
  LET t == PhotoTarget(p, zoomed, exploded)
  IN  [p EXCEPT !.x = Ease(p.x, t.x), !.y = Ease(p.y, t.y), !.z = Ease(p.z, t.z),
                !.opacity = Ease(p.opacity, t.opacity)]

\* one call of updatePhysics on the scene sc = [rotation, particles, photoObjects]
UpdatePhysics(sc, zoomed, exploded) ==
  [rotation     |-> sc.rotation + RotationStep(zoomed, exploded),
   particles    |-> [i \in DOMAIN sc.particles |->
                       ParticleStep(sc.particles[i], exploded)],
   photoObjects |-> [i \in DOMAIN sc.photoObjects |->
                       PhotoStep(sc.photoObjects[i], zoomed, exploded)]]

\* n consecutive animation frames
RECURSIVE Frames(_, _, _, _)
Frames(n, sc, zoomed, exploded) ==
  IF n = 0 THEN sc
  ELSE Frames(n - 1, UpdatePhysics(sc, zoomed, exploded), zoomed, exploded)

----------------------------------------------------------------------------
(* Projection and hit test: handleInteraction *)

\* rz = p.z * cos + p.x * sin
Depth(p, rot) == RoundDiv(p.z * Cos(rot) + p.x * Sin(rot), TrigScale)

\* rx = p.x * cos - p.z * sin
RotX(p, rot) == RoundDiv(p.x * Cos(rot) - p.z * Sin(rot), TrigScale)

\* scale = FOCAL_LENGTH / (FOCAL_LENGTH + rz) is positive and finite
ScalePositive(p, rot) == FOCAL_LENGTH * PosScale + Depth(p, rot) > 0

\* the projected rectangle of p contains the point pt (pixels); the four
\* comparisons of the source multiplied through by 2 * (FOCAL_LENGTH + rz)
Contains(p, rot, pt) ==
  LET den == FOCAL_LENGTH * PosScale + Depth(p, rot)
      dx  == (2 * pt.x - canvas.width) * den
      dy  == (2 * pt.y - canvas.height) * den
      rx2 == 2 * RotX(p, rot) * FOCAL_LENGTH
      ry2 == 2 * p.y * FOCAL_LENGTH
      w   == p.width * FOCAL_LENGTH
      h   == p.height * FOCAL_LENGTH
  IN  /\ den > 0
      /\ dx >= rx2 - w /\ dx <= rx2 + w
      /\ dy >= ry2 - h /\ dy <= ry2 + h

\* every photo object a candidate, whatever its opacity
Candidates_All(objs) == objs

\* photoObjectsRef.current.filter(p => p.opacity > 0.5)
Candidates(objs) == SelectSeq(objs, LAMBDA p : 2 * p.opacity > OpScale)

\* insert p into the depth-sorted list after every entry that is not farther
RECURSIVE InsertByDepth(_, _, _)
InsertByDepth(p, sorted, rot) ==
  IF sorted = << >> THEN << p >>
  ELSE IF Depth(Head(sorted), rot) <= Depth(p, rot)
    THEN << Head(sorted) >> \o InsertByDepth(p, Tail(sorted), rot)
  ELSE << p >> \o sorted

\* the candidates left in list order
SortByDepth_Unsorted(objs, rot) == objs

\* candidates.sort((a, b) => depth(a) - depth(b)): ascending and stable
RECURSIVE SortByDepth(_, _)
SortByDepth(objs, rot) ==
  IF objs = << >> THEN << >>
  ELSE InsertByDepth(objs[Len(objs)], SortByDepth(SubSeq(objs, 1, Len(objs) - 1), rot), rot)

\* the for loop: the id of the first entry that contains the point
RECURSIVE FirstHit(_, _, _)
FirstHit(sorted, rot, pt) ==
  IF sorted = << >> THEN NoId
  ELSE IF ScalePositive(Head(sorted), rot) /\ Contains(Head(sorted), rot, pt)
    THEN Head(sorted).id
  ELSE FirstHit(Tail(sorted), rot, pt)

HitTest(objs, rot, pt) == FirstHit(SortByDepth(Candidates(objs), rot), rot, pt)

----------------------------------------------------------------------------
(* Gesture classification: detectGesture *)

PINCH_THRESHOLD == 5
FIST_THRESHOLD == 25
PALM_THRESHOLD == 40

NoHand == [present |-> FALSE, d |-> 0, m |-> 0, x |-> 0, y |-> 0]
NoCursor == [set |-> FALSE, x |-> 0, y |-> 0]
NoGesture == [gesture |-> "NONE", cursor |-> NoCursor]

\* a classifier that tests the fist before the pinch
Classify_FistFirst(d, m) ==
  IF m < FIST_THRESHOLD THEN "CLOSED_FIST"
  ELSE IF d < PINCH_THRESHOLD THEN "PINCH"
  ELSE IF m > PALM_THRESHOLD THEN "OPEN_PALM"
  ELSE "POINTING"

\* the label for thumb-index distance d and mean fingertip-wrist distance m
Classify(d, m) ==
  IF d < PINCH_THRESHOLD THEN "PINCH"
  ELSE IF m < FIST_THRESHOLD THEN "CLOSED_FIST"
  ELSE IF m > PALM_THRESHOLD THEN "OPEN_PALM"
  ELSE "POINTING"

\* detectGesture(video): ready is handLandmarker # undefined, hand is what
\* detectForVideo finds in the frame
DetectGesture(ready, hand) ==
  IF ~ready THEN NoGesture
  ELSE IF hand.present
    THEN [gesture |-> Classify(hand.d, hand.m),
          cursor  |-> [set |-> TRUE, x |-> hand.x, y |-> hand.y]]
  ELSE NoGesture

----------------------------------------------------------------------------
(* The React state and the refs a handler or an effect reads and writes *)

Cur ==
  [isExploded |-> isExploded, explodeReq |-> explodeReq,
   gestureState |-> gestureState, gestureReq |-> gestureReq,
   photos |-> photos, photosReq |-> photosReq, due |-> due,
   tickExploded |-> tickExploded, photoObjects |-> photoObjects,
   zoomedPhotoId |-> zoomedPhotoId, nextId |-> nextId,
   resizeReq |-> resizeReq, isMobile |-> isMobile, dimensions |-> dimensions,
   particles |-> particles, particleCount |-> particleCount,
   frames |-> frames, pinchRuns |-> pinchRuns]

\* onToggleExplode(v) = setIsExploded(v)
OnToggleExplode(s, v) == [s EXCEPT !.explodeReq = << v >>]

\* handleInteraction without the early return of the zoomed branch
HandleInteraction_NoUnzoom(s, pt, isRightClick) ==
  IF isRightClick
    THEN [OnToggleExplode(s, FALSE) EXCEPT !.zoomedPhotoId = NoId]
  ELSE IF ~s.isExploded
    THEN OnToggleExplode(s, TRUE)
  ELSE LET clickedId == HitTest(s.photoObjects, rotation, pt)
       IN  IF clickedId # NoId THEN [s EXCEPT !.zoomedPhotoId = clickedId] ELSE s

\* handleInteraction(inputX, inputY, isRightClick), with the isExploded of
\* the render that created the closure
HandleInteraction(s, pt, isRightClick) ==
  IF isRightClick
    THEN [OnToggleExplode(s, FALSE) EXCEPT !.zoomedPhotoId = NoId]
  ELSE IF ~s.isExploded
    THEN OnToggleExplode(s, TRUE)
  ELSE IF s.zoomedPhotoId # NoId
    THEN [s EXCEPT !.zoomedPhotoId = NoId]
  ELSE LET clickedId == HitTest(s.photoObjects, rotation, pt)
       IN  IF clickedId # NoId THEN [s EXCEPT !.zoomedPhotoId = clickedId] ELSE s

\* the point a PINCH is handled at: ((1 - cursor.x) * width, cursor.y * height)
PinchPoint(cursor) ==
  [x |-> RoundDiv((NormScale - cursor.x) * canvas.width, NormScale),
   y |-> RoundDiv(cursor.y * canvas.height, NormScale)]

\* the gesture effect with a CLOSED_FIST that leaves the zoomed id alone
GestureEffect_FistKeepsZoom(s) ==
  LET g  == s.gestureState.gesture
      c  == s.gestureState.cursor
      s1 == IF g = "OPEN_PALM" /\ ~s.isExploded THEN OnToggleExplode(s, TRUE) ELSE s
      s2 == IF g = "CLOSED_FIST" THEN OnToggleExplode(s1, FALSE) ELSE s1
  IN  IF g = "PINCH" /\ c.set
        THEN [HandleInteraction(s2, PinchPoint(c), FALSE) EXCEPT !.pinchRuns = @ + 1]
        ELSE s2

\* the effect on [currentGesture, gestureCursor, isExploded]
GestureEffect(s) ==
  LET g  == s.gestureState.gesture
      c  == s.gestureState.cursor
      s1 == IF g = "OPEN_PALM" /\ ~s.isExploded THEN OnToggleExplode(s, TRUE) ELSE s
      s2 == IF g = "CLOSED_FIST"
              THEN [OnToggleExplode(s1, FALSE) EXCEPT !.zoomedPhotoId = NoId]
              ELSE s1
  IN  IF g = "PINCH" /\ c.set
        THEN [HandleInteraction(s2, PinchPoint(c), FALSE) EXCEPT !.pinchRuns = @ + 1]
        ELSE s2

\* explosion targets a photo can draw (pixels)
TargetChoices ==
  << [x |-> 0, y |-> 0, z |-> -250],
     [x |-> 30, y |-> 20, z |-> 250] >>

\* photo objects that all get the same id
NewPhotoObject_SameId(img, n) ==
  LET t == TargetChoices[img.draw]
  IN  [id |-> 1, width |-> PHOTO_WIDTH * PosScale,
       height |-> RoundDiv(PHOTO_WIDTH * PosScale * img.height, img.width),
       x |-> 0, y |-> 0, z |-> 0, baseX |-> 0, baseY |-> 0, baseZ |-> 0,
       targetX |-> t.x * PosScale, targetY |-> t.y * PosScale,
       targetZ |-> t.z * PosScale, opacity |-> 0]

\* the photo object pushed for image img; its id is the n-th generated:
\* Math.random().toString(36).substr(2, 9), taken to be a fresh id
NewPhotoObject(img, n) ==
  LET t == TargetChoices[img.draw]
  IN  [id |-> n, width |-> PHOTO_WIDTH * PosScale,
       height |-> RoundDiv(PHOTO_WIDTH * PosScale * img.height, img.width),
       x |-> 0, y |-> 0, z |-> 0, baseX |-> 0, baseY |-> 0, baseZ |-> 0,
       targetX |-> t.x * PosScale, targetY |-> t.y * PosScale,
       targetZ |-> t.z * PosScale, opacity |-> 0]

RECURSIVE PushPhotos(_, _, _)
PushPhotos(objs, imgs, n) ==
  IF imgs = << >> THEN objs
  ELSE PushPhotos(Append(objs, NewPhotoObject(Head(imgs), n + 1)), Tail(imgs), n + 1)

\* the effect on [photos] that rebuilds every photo object from the images
PhotoSyncEffect_Rebuild(s) ==
  IF Len(s.photos) = 0
    THEN [s EXCEPT !.photoObjects = << >>, !.zoomedPhotoId = NoId]
  ELSE IF Len(s.photos) > Len(s.photoObjects)
    THEN [s EXCEPT !.photoObjects = PushPhotos(<< >>, s.photos, 0),
                   !.nextId = Len(s.photos)]
  ELSE s

\* the effect on [photos]
PhotoSyncEffect(s) ==
  IF Len(s.photos) = 0
    THEN [s EXCEPT !.photoObjects = << >>, !.zoomedPhotoId = NoId]
  ELSE IF Len(s.photos) > Len(s.photoObjects)
    THEN LET newImgs == SubSeq(s.photos, Len(s.photoObjects) + 1, Len(s.photos))
         IN  [s EXCEPT !.photoObjects = PushPhotos(s.photoObjects, newImgs, s.nextId),
                       !.nextId = s.nextId + Len(newImgs)]
  ELSE s

\* cancelAnimationFrame(requestRef.current)
CancelFrame(fs) == SelectSeq(fs, LAMBDA f : ~f.ref)

\* requestRef.current = requestAnimationFrame(tick), tick reading exploded
RequestFrame(fs, exploded) ==
  Append([i \in DOMAIN fs |-> [fs[i] EXCEPT !.ref = FALSE]],
         [exploded |-> exploded, ref |-> TRUE])

\* the tick effect without its cleanup
TickEffect_NoCleanup(s) ==
  [s EXCEPT !.tickExploded = s.isExploded,
            !.frames = RequestFrame(s.frames, s.isExploded)]

\* the effect on [tick]: the pending frame is cancelled and the new tick,
\* which reads the isExploded of this render, is scheduled
TickEffect(s) ==
  [s EXCEPT !.tickExploded = s.isExploded,
            !.frames = RequestFrame(CancelFrame(s.frames), s.isExploded)]

\* the passive effects of the last render that are due, in declaration order
FlushEffects(s) ==
  LET s1 == IF "photos" \in s.due THEN PhotoSyncEffect(s) ELSE s
      s2 == IF "tick" \in s.due THEN TickEffect(s1) ELSE s1
      s3 == IF "gesture" \in s.due THEN GestureEffect(s2) ELSE s2
  IN  [s3 EXCEPT !.due = {}]

\* a render: the queued requests become the state, and the effects whose
\* dependencies changed become due.  A cursor object is a new object in every
\* published result, null is the same value in all; the dimensions object is
\* a new object after every handleResize.
Commit(s) ==
  LET e  == IF s.explodeReq # << >> THEN s.explodeReq[1] ELSE s.isExploded
      g  == IF s.gestureReq # << >> THEN s.gestureReq[1] ELSE s.gestureState
      ph == IF s.photosReq # << >> THEN s.photosReq[1] ELSE s.photos
      eChanged == e # s.isExploded
      gChanged == g.gesture # s.gestureState.gesture
      cChanged == s.gestureReq # << >> /\ (g.cursor.set \/ s.gestureState.cursor.set)
      m  == IF s.resizeReq # << >> THEN s.resizeReq[1] ELSE s.isMobile
      d1 == IF s.photosReq # << >> THEN {"photos"} ELSE {}
      d2 == IF eChanged \/ gChanged \/ cChanged THEN {"tick", "gesture"} ELSE {}
      d3 == IF s.resizeReq # << >> THEN {"particles", "tick"} ELSE {}
  IN  [s EXCEPT !.isExploded = e, !.explodeReq = << >>,
                !.gestureState = g, !.gestureReq = << >>,
                !.photos = ph, !.photosReq = << >>,
                !.isMobile = m, !.resizeReq = << >>,
                !.dimensions = IF s.resizeReq # << >>
                                 THEN [height |-> IF m THEN 400 ELSE 600,
                                       radius |-> IF m THEN 140 ELSE 220]
                                 ELSE s.dimensions,
                !.pinchRuns = IF s.gestureReq # << >> THEN 0 ELSE s.pinchRuns,
                !.due = s.due \cup d1 \cup d2 \cup d3]

----------------------------------------------------------------------------
(* Particle population: the effect on [dimensions, isMobile] *)

DESKTOP_DIMENSIONS == [height |-> 600, radius |-> 220]
MOBILE_DIMENSIONS == [height |-> 400, radius |-> 140]

\* outcomes of the Math.random() draws of one particle: the jittered spiral
\* position (x, z) and the explosion target (pixels)
ParticleDraws ==
  << [x |-> 12, z |-> 0, targetX |-> 400, targetY |-> -300, targetZ |-> 200],
     [x |-> 150, z |-> -20, targetX |-> -450, targetY |-> 60, targetZ |-> 100] >>

\* the same for a mobile tree
MobileParticleDraws ==
  << [x |-> 8, z |-> 0, targetX |-> 250, targetY |-> -200, targetZ |-> 100],
     [x |-> 100, z |-> -10, targetX |-> -300, targetY |-> 40, targetZ |-> 60] >>

DrawsFor(dims) == IF dims.radius = 140 THEN MobileParticleDraws ELSE ParticleDraws

\* a particle whose id is one more than its index
NewParticle_IdFromOne(i, count, dims, draw) ==
  LET d == DrawsFor(dims)[draw]
      y == RoundDiv(i * dims.height * PosScale, count) - (dims.height * PosScale) \div 2
  IN  [id |-> i + 1, x |-> d.x * PosScale, y |-> y, z |-> d.z * PosScale,
       baseX |-> d.x * PosScale, baseY |-> y, baseZ |-> d.z * PosScale,
       targetX |-> d.targetX * PosScale, targetY |-> d.targetY * PosScale,
       targetZ |-> d.targetZ * PosScale]

\* the particle with index i of count
NewParticle(i, count, dims, draw) ==
  LET d == DrawsFor(dims)[draw]
      y == RoundDiv(i * dims.height * PosScale, count) - (dims.height * PosScale) \div 2
  IN  [id |-> i, x |-> d.x * PosScale, y |-> y, z |-> d.z * PosScale,
       baseX |-> d.x * PosScale, baseY |-> y, baseZ |-> d.z * PosScale,
       targetX |-> d.targetX * PosScale, targetY |-> d.targetY * PosScale,
       targetZ |-> d.targetZ * PosScale]

\* the tracked part of newParticles: every TrackStride-th particle
TrackedCount(count) == (count + TrackStride - 1) \div TrackStride

\* newParticles when the draws of the particles start at the shift-th outcome
NewParticlesDrawn(mobile, dims, shift) ==
  [k \in 1..TrackedCount(PARTICLE_COUNT(mobile)) |->
     NewParticle((k - 1) * TrackStride, PARTICLE_COUNT(mobile), dims,
                 1 + ((k - 1 + shift) % Len(ParticleDraws)))]

NewParticles(mobile, dims) == NewParticlesDrawn(mobile, dims, 0)

\* the effect on [dimensions, isMobile]: particlesRef.current = newParticles
ParticleInitEffect(s, shift) ==
  [s EXCEPT !.particles = NewParticlesDrawn(s.isMobile, s.dimensions, shift),
            !.particleCount = PARTICLE_COUNT(s.isMobile)]

----------------------------------------------------------------------------
(* Inputs *)

\* input points of a click (canvas pixels)
PointChoices == { [x |-> 500, y |-> 350], [x |-> 500, y |-> 407] }

\* decoded images: pixel size, and the draw of their photo object
ImageChoices ==
  { [width |-> 4, height |-> 3, draw |-> 1],
    [width |-> 1, height |-> 1, draw |-> 2] }

\* hands in a video frame: thumb-index distance d, mean fingertip-wrist
\* distance m, index fingertip (x, y)
HandChoices ==
  { NoHand,
    [present |-> TRUE, d |-> 3, m |-> 30, x |-> 44, y |-> 50],
    [present |-> TRUE, d |-> 20, m |-> 15, x |-> 50, y |-> 50],
    [present |-> TRUE, d |-> 20, m |-> 50, x |-> 50, y |-> 50],
    [present |-> TRUE, d |-> 20, m |-> 30, x |-> 50, y |-> 50] }

NoPoint == [x |-> 0, y |-> 0]
NoStep == [op |-> "init", right |-> FALSE, pt |-> NoPoint, n |-> 0,
           gesture |-> "NONE", ran |-> {},
           pre |-> [isExploded |-> FALSE, zoomedPhotoId |-> NoId]]

Pre == [isExploded |-> isExploded, zoomedPhotoId |-> zoomedPhotoId]

----------------------------------------------------------------------------
(* The state after mount: first render, initial handleResize, first effects *)

\* imgs are the photos uploaded, rendered and synchronised so far
MountedWith(imgs) ==
  /\ isExploded = FALSE
  /\ explodeReq = << >>
  /\ gestureState = NoGesture
  /\ gestureReq = << >>
  /\ photos = imgs
  /\ photosReq = << >>
  /\ due = {}
  /\ tickExploded = FALSE
  /\ isMobile = FALSE
  /\ dimensions = DESKTOP_DIMENSIONS
  /\ canvas = [width |-> 1000, height |-> 700]
  /\ particles = NewParticles(FALSE, DESKTOP_DIMENSIONS)
  /\ particleCount = PARTICLE_COUNT(FALSE)
  /\ photoObjects = PushPhotos(<< >>, imgs, 0)
  /\ rotation = 0
  /\ zoomedPhotoId = NoId
  /\ loopRunning = FALSE
  /\ syncPending = FALSE
  /\ cancelled = FALSE
  /\ nextId = Len(imgs)
  /\ nEvents = 0
  /\ nPublished = 0
  /\ nTicks = 0
  /\ last = NoStep
  /\ resizeReq = << >>
  /\ frames = << [exploded |-> FALSE, ref |-> TRUE] >>
  /\ mounted = TRUE
  /\ pinchRuns = 0

Mounted == MountedWith(<< >>)

Init ==
  /\ Mounted
  /\ handLandmarker = FALSE
  /\ probe = 0

\* the variables written by handlers, effects and renders become those of s
Set(s) ==
  /\ isExploded' = s.isExploded
  /\ explodeReq' = s.explodeReq
  /\ gestureState' = s.gestureState
  /\ gestureReq' = s.gestureReq
  /\ photos' = s.photos
  /\ photosReq' = s.photosReq
  /\ due' = s.due
  /\ tickExploded' = s.tickExploded
  /\ photoObjects' = s.photoObjects
  /\ zoomedPhotoId' = s.zoomedPhotoId
  /\ nextId' = s.nextId
  /\ resizeReq' = s.resizeReq
  /\ isMobile' = s.isMobile
  /\ dimensions' = s.dimensions
  /\ particles' = s.particles
  /\ particleCount' = s.particleCount
  /\ frames' = s.frames
  /\ pinchRuns' = s.pinchRuns

External == mounted /\ ~syncPending /\ nEvents < MaxEvents

\* onMouseDown: handleInteraction(clientX - rect.left, clientY - rect.top, button = 2)
Click(pt, isRightClick) ==
  /\ External
  /\ Set(HandleInteraction(Cur, pt, isRightClick))
  /\ syncPending' = (isRightClick \/ ~isExploded)
  /\ cancelled' = (isRightClick /\ gestureReq = << >> /\ due = {})
  /\ nEvents' = nEvents + 1
  /\ last' = [NoStep EXCEPT !.op = "click", !.right = isRightClick, !.pt = pt,
                            !.pre = Pre]
  /\ UNCHANGED << rotation, canvas, handLandmarker, loopRunning, nPublished, nTicks,
                  probe, mounted >>

\* img.onload of handleFileUpload: setPhotos(prev => [...prev, img])
ImageLoaded(img) ==
  /\ External
  /\ photosReq' = << Append(IF photosReq # << >> THEN photosReq[1] ELSE photos, img) >>
  /\ nEvents' = nEvents + 1
  /\ last' = [NoStep EXCEPT !.op = "image", !.pre = Pre]
  /\ UNCHANGED << isExploded, explodeReq, gestureState, gestureReq, photos, due,
                  tickExploded, particles, particleCount, photoObjects, rotation,
                  zoomedPhotoId, isMobile, dimensions, canvas, handLandmarker,
                  loopRunning, syncPending, cancelled, nextId, nPublished, nTicks, probe,
                  resizeReq, frames, mounted, pinchRuns >>

\* the Clear button, rendered while photos.length > 0: setPhotos([])
ClearAll ==
  /\ External
  /\ Len(photos) > 0
  /\ photosReq' = << << >> >>
  /\ syncPending' = TRUE
  /\ nEvents' = nEvents + 1
  /\ last' = [NoStep EXCEPT !.op = "clear", !.pre = Pre]
  /\ UNCHANGED << isExploded, explodeReq, gestureState, gestureReq, photos, due,
                  tickExploded, particles, particleCount, photoObjects, rotation,
                  zoomedPhotoId, isMobile, dimensions, canvas, handLandmarker,
                  loopRunning, cancelled, nextId, nPublished, nTicks, probe,
                  resizeReq, frames, mounted, pinchRuns >>

\* startCamera that starts the detection loop whatever the initialisation
\* returned
StartCamera_LoopAnyway(ok) ==
  /\ mounted
  /\ ~syncPending
  /\ ~loopRunning
  /\ nEvents = 0 /\ nTicks = 0 /\ last.op \in {"init", "camera"}
  /\ handLandmarker' = ok
  /\ loopRunning' = TRUE
  /\ last' = [NoStep EXCEPT !.op = "camera", !.right = ok, !.pre = Pre,
                            !.n = IF last.op = "camera" THEN 1 ELSE 0]
  /\ UNCHANGED << isExploded, explodeReq, gestureState, gestureReq, photos, photosReq,
                  due, tickExploded, particles, particleCount, photoObjects, rotation,
                  zoomedPhotoId, isMobile, dimensions, canvas, syncPending, cancelled,
                  nextId, nEvents, nPublished, nTicks, probe,
                  resizeReq, frames, mounted, pinchRuns >>

\* startCamera: initializeHandLandmarker succeeds (ok) or fails; on success
\* the video loads and startDetectionLoop runs.  It touches nothing another
\* step reads except what PublishGesture needs, so it is taken first; after
\* a failure it can be taken again (last.n = 1 marks the retry).
StartCamera(ok) ==
  /\ mounted
  /\ ~syncPending
  /\ ~loopRunning
  /\ nEvents = 0 /\ nTicks = 0 /\ last.op \in {"init", "camera"}
  /\ handLandmarker' = ok
  /\ loopRunning' = ok
  /\ last' = [NoStep EXCEPT !.op = "camera", !.right = ok, !.pre = Pre,
                            !.n = IF last.op = "camera" THEN 1 ELSE 0]
  /\ UNCHANGED << isExploded, explodeReq, gestureState, gestureReq, photos, photosReq,
                  due, tickExploded, particles, particleCount, photoObjects, rotation,
                  zoomedPhotoId, isMobile, dimensions, canvas, syncPending, cancelled,
                  nextId, nEvents, nPublished, nTicks, probe,
                  resizeReq, frames, mounted, pinchRuns >>

\* one iteration of the detection loop: setGestureState(detectGesture(video))
PublishGesture(hand) ==
  /\ External
  /\ loopRunning
  /\ nPublished < MaxEvents \div 2
  /\ nPublished' = nPublished + 1
  /\ LET result == DetectGesture(handLandmarker, hand)
     IN  /\ gestureReq' = << result >>
         /\ cancelled' = (cancelled /\ result.gesture \notin {"OPEN_PALM", "PINCH"})
         /\ last' = [NoStep EXCEPT !.op = "publish", !.gesture = result.gesture,
                                   !.pre = Pre]
  /\ nEvents' = nEvents + 1
  /\ UNCHANGED << isExploded, explodeReq, gestureState, photos, photosReq, due,
                  tickExploded, particles, particleCount, photoObjects, rotation,
                  zoomedPhotoId, isMobile, dimensions, canvas, handLandmarker,
                  loopRunning, syncPending, nextId, nTicks, probe,
                  resizeReq, frames, mounted, pinchRuns >>

\* an iteration of the detection loop after the unmount: videoRef.current is
\* null, nothing is detected or published, and the loop requests its next
\* frame
IdleLoop ==
  /\ loopRunning
  /\ ~mounted
  /\ nPublished < MaxEvents \div 2
  /\ nPublished' = nPublished + 1
  /\ last' = [NoStep EXCEPT !.op = "loop", !.pre = Pre]
  /\ UNCHANGED << isExploded, explodeReq, gestureState, gestureReq, photos, photosReq,
                  due, tickExploded, particles, particleCount, photoObjects, rotation,
                  zoomedPhotoId, isMobile, dimensions, canvas, handLandmarker,
                  loopRunning, syncPending, cancelled, nextId, nEvents, nTicks, probe,
                  resizeReq, frames, mounted, pinchRuns >>

\* a window resize to width w: both handleResize listeners run; the canvas
\* takes the new width at once, the size class and the dimensions are queued
Resize(w) ==
  /\ External
  /\ canvas' = [canvas EXCEPT !.width = w]
  /\ resizeReq' = << w < MOBILE_BREAKPOINT >>
  /\ nEvents' = nEvents + 1
  /\ last' = [NoStep EXCEPT !.op = "resize", !.pre = Pre]
  /\ UNCHANGED << isExploded, explodeReq, gestureState, gestureReq, photos, photosReq,
                  due, tickExploded, particles, particleCount, photoObjects, rotation,
                  zoomedPhotoId, isMobile, dimensions, handLandmarker, loopRunning,
                  syncPending, cancelled, nextId, nPublished, nTicks, probe,
                  frames, mounted, pinchRuns >>

\* the application is unmounted: React has run the effects still due, the
\* cleanup of the tick effect cancels the frame requestRef.current names,
\* the listeners are removed; nothing stops the detection loop
Unmount ==
  /\ mounted
  /\ ~syncPending
  /\ due = {}
  /\ mounted' = FALSE
  /\ frames' = CancelFrame(frames)
  /\ last' = [NoStep EXCEPT !.op = "unmount", !.pre = Pre]
  /\ UNCHANGED << isExploded, explodeReq, gestureState, gestureReq, photos, photosReq,
                  due, tickExploded, particles, particleCount, photoObjects, rotation,
                  zoomedPhotoId, isMobile, dimensions, canvas, handLandmarker,
                  loopRunning, syncPending, cancelled, nextId, nEvents, nPublished,
                  nTicks, probe, resizeReq, pinchRuns >>

\* React renders App and ChristmasTree with the queued requests
Render ==
  /\ mounted
  /\ due = {}
  /\ explodeReq # << >> \/ gestureReq # << >> \/ photosReq # << >> \/ resizeReq # << >>
  /\ Set(Commit(Cur))
  /\ syncPending' = FALSE
  /\ last' = [NoStep EXCEPT !.op = "render", !.pre = Pre]
  /\ UNCHANGED << rotation, canvas, handLandmarker, loopRunning, cancelled, nEvents,
                  nPublished, nTicks, probe, mounted >>

\* React runs the passive effects of the last render; shift is the outcome of
\* the Math.random() draws of the particle effect, which is declared first
Effects(shift) ==
  /\ mounted
  /\ due # {}
  /\ Set(FlushEffects(IF "particles" \in due THEN ParticleInitEffect(Cur, shift) ELSE Cur))
  /\ last' = [NoStep EXCEPT !.op = "effects", !.ran = due,
                            !.gesture = gestureState.gesture, !.pre = Pre]
  /\ UNCHANGED << rotation, canvas, handLandmarker, loopRunning, syncPending,
                  cancelled, nEvents, nPublished, nTicks, probe, mounted >>

\* n animation frames with no other step between them; each is tick():
\* updatePhysics(), then draw(), which writes no scene state
Tick(n, limit) ==
  /\ ~syncPending
  /\ nTicks < limit
  /\ frames # << >>
  /\ LET sc == Frames(n, [rotation |-> rotation, particles |-> particles,
                          photoObjects |-> photoObjects],
                      zoomedPhotoId, Head(frames).exploded)
     IN  /\ rotation' = sc.rotation
         /\ particles' = sc.particles
         /\ photoObjects' = sc.photoObjects
  /\ frames' = RequestFrame(Tail(frames), Head(frames).exploded)
  /\ nTicks' = nTicks + 1
  /\ last' = [NoStep EXCEPT !.op = "tick", !.n = n, !.pre = Pre]
  /\ UNCHANGED << isExploded, explodeReq, gestureState, gestureReq, photos, photosReq,
                  due, tickExploded, particleCount, zoomedPhotoId, isMobile,
                  dimensions, canvas, handLandmarker, loopRunning, syncPending,
                  cancelled, nextId, nEvents, nPublished, probe,
                  resizeReq, mounted, pinchRuns >>

Next ==
  \/ \E pt \in PointChoices : Click(pt, FALSE)
  \/ Click(NoPoint, TRUE)
  \/ \E img \in ImageChoices : ImageLoaded(img)
  \/ ClearAll
  \/ \E ok \in BOOLEAN : StartCamera(ok)
  \/ \E hand \in HandChoices : PublishGesture(hand)
  \/ Render
  \/ Effects(0)
  \/ \E n \in {1, IdleFrames} : Tick(n, MaxTicks \div 2)

\* a session in a window that keeps its size
Spec == Init /\ [][Next]_vars

\* a session in which the camera is never enabled
NextPointer ==
  \/ \E pt \in PointChoices : Click(pt, FALSE)
  \/ Click(NoPoint, TRUE)
  \/ \E img \in ImageChoices : ImageLoaded(img)
  \/ ClearAll
  \/ Render
  \/ Effects(0)
  \/ \E n \in {1, IdleFrames} : Tick(n, MaxTicks)

SpecPointer == Init /\ [][NextPointer]_vars

\* a session without camera that starts when two different photos have been
\* uploaded, in either order
Gallery == { << a, b >> : a \in ImageChoices, b \in ImageChoices } \ { << a, a >> : a \in ImageChoices }

InitGallery ==
  /\ \E imgs \in Gallery : MountedWith(imgs)
  /\ handLandmarker = FALSE
  /\ probe = 0

NextGallery ==
  \/ \E pt \in PointChoices : Click(pt, FALSE)
  \/ Click(NoPoint, TRUE)
  \/ \E img \in ImageChoices : ImageLoaded(img)
  \/ ClearAll
  \/ Render
  \/ Effects(0)
  \/ \E n \in {1, IdleFrames} : Tick(n, MaxTicks \div 2)

SpecGallery == InitGallery /\ [][NextGallery]_vars

\* window widths of a resize, on both sides of the breakpoint
WidthChoices == {600, 1200}

\* a session without photos in which the window is resized and the
\* application can be unmounted
NextLifecycle ==
  \/ Click(NoPoint, FALSE)
  \/ Click(NoPoint, TRUE)
  \/ \E w \in WidthChoices : Resize(w)
  \/ \E ok \in BOOLEAN : StartCamera(ok)
  \/ \E hand \in HandChoices : PublishGesture(hand)
  \/ IdleLoop
  \/ Unmount
  \/ Render
  \/ \E shift \in {0, 1} : Effects(shift)
  \/ \E n \in {1, IdleFrames} : Tick(n, MaxTicks \div 2)

SpecLifecycle == Init /\ [][NextLifecycle]_vars

----------------------------------------------------------------------------
(* detectGesture applied on its own *)

\* hands around the three thresholds, with two index fingertip positions
DetectHands ==
  { NoHand } \cup
  { [present |-> TRUE, d |-> d, m |-> m, x |-> c.x, y |-> c.y] :
      d \in 3..7, m \in {24, 25, 26, 39, 40, 41},
      c \in { [x |-> 44, y |-> 50], [x |-> 0, y |-> 100] } }

InitDetect ==
  /\ Mounted
  /\ handLandmarker \in BOOLEAN
  /\ probe \in DetectHands

\* one call detectGesture(video) on the frame that shows the hand probe; the
\* result is what the detection loop hands to setGestureState
Detect ==
  /\ last.op = "init"
  /\ gestureReq' = << DetectGesture(handLandmarker, probe) >>
  /\ last' = [NoStep EXCEPT !.op = "detect"]
  /\ UNCHANGED << isExploded, explodeReq, gestureState, photos, photosReq, due,
                  tickExploded, particles, particleCount, photoObjects, rotation,
                  zoomedPhotoId, isMobile, dimensions, canvas, handLandmarker,
                  loopRunning, syncPending, cancelled, nextId, nEvents, nPublished,
                  nTicks, probe, resizeReq, frames, mounted, pinchRuns >>

NextDetect == Detect

SpecDetect == InitDetect /\ [][NextDetect]_vars

----------------------------------------------------------------------------
(* One eased quantity with a fixed target, in 1/EaseScale *)

\* start and target of a coordinate (pixels) or of an opacity
EaseStarts ==
  { [cur |-> 0, target |-> 450 * EaseScale],
    [cur |-> -450 * EaseScale, target |-> 30 * EaseScale],
    [cur |-> 20 * EaseScale, target |-> 0],
    [cur |-> 12 * EaseScale, target |-> 12 * EaseScale],
    [cur |-> 0, target |-> EaseScale],
    [cur |-> EaseScale, target |-> 0] }

InitEase ==
  /\ Mounted
  /\ handLandmarker = FALSE
  /\ probe \in { [start |-> e.cur, cur |-> e.cur, target |-> e.target, n |-> 0] :
                   e \in EaseStarts }

\* one physics step seen from a single quantity: cur += (target - cur) * ease
EaseStep ==
  /\ probe.n < MaxEaseSteps
  /\ probe' = [probe EXCEPT !.cur = Ease(probe.cur, probe.target), !.n = probe.n + 1]
  /\ last' = [NoStep EXCEPT !.op = "ease", !.n = 1]
  /\ UNCHANGED << isExploded, explodeReq, gestureState, gestureReq, photos, photosReq,
                  due, tickExploded, particles, particleCount, photoObjects, rotation,
                  zoomedPhotoId, isMobile, dimensions, canvas, handLandmarker,
                  loopRunning, syncPending, cancelled, nextId, nEvents, nPublished,
                  nTicks, resizeReq, frames, mounted, pinchRuns >>

NextEase == EaseStep

SpecEase == InitEase /\ [][NextEase]_vars

----------------------------------------------------------------------------
(* Claims *)

\* photo i is a hit-test candidate whose projected rectangle contains pt
EligibleHit(i, pt) ==
  /\ 2 * photoObjects[i].opacity > OpScale
  /\ Contains(photoObjects[i], rotation, pt)

PrimaryClick == last.op = "click" /\ ~last.right

\* C1: a primary click handled by handleInteraction requests the explode flag
\* to become true and keeps the zoomed id when the flag is false; clears the
\* zoomed id and keeps the flag, whatever lies under the point, when the flag
\* is true and a photo is zoomed; changes neither when the flag is true, no
\* photo is zoomed and no candidate photo contains the point.
C1_PrimaryClick ==
  [][ (last'.op = "click" /\ ~last'.right) =>
        /\ ~isExploded =>
             /\ explodeReq' = << TRUE >>
             /\ zoomedPhotoId' = zoomedPhotoId
        /\ (isExploded /\ zoomedPhotoId # NoId) =>
             /\ zoomedPhotoId' = NoId
             /\ explodeReq' = explodeReq /\ isExploded' = TRUE /\ ~syncPending'
        /\ (isExploded /\ zoomedPhotoId = NoId
              /\ \A i \in 1..Len(photoObjects) : ~EligibleHit(i, last'.pt)) =>
             /\ zoomedPhotoId' = NoId
             /\ explodeReq' = explodeReq /\ isExploded' = TRUE /\ ~syncPending'
    ]_vars

\* C1 witness: a primary click on a point inside a candidate photo, taken
\* while a photo was zoomed, has cleared the zoomed id
C1_Witness ==
  /\ PrimaryClick
  /\ last.pre.isExploded /\ last.pre.zoomedPhotoId # NoId
  /\ zoomedPhotoId = NoId
  /\ \E i \in 1..Len(photoObjects) : EligibleHit(i, last.pt)

\* C2: after a cancel (right click), once React has rendered, the explode
\* flag is false and the zoomed id null, and they stay so until a further
\* primary click, OPEN_PALM result or PINCH result arrives.
C2_CancelStaysCollapsed ==
  (cancelled /\ ~syncPending) => (isExploded = FALSE /\ zoomedPhotoId = NoId)

\* the state the gesture effect of this flush starts from
BeforeGestureEffect == IF "photos" \in due THEN PhotoSyncEffect(Cur) ELSE Cur

\* C3: when the gesture effect runs for a published result, OPEN_PALM
\* requests the explode flag true if it is false and otherwise changes
\* nothing (never the zoomed id); CLOSED_FIST requests the flag false and
\* clears the zoomed id; PINCH with a cursor does what a primary click at
\* ((1 - cursor.x) * width, cursor.y * height) does; NONE and POINTING change
\* neither the flag nor the zoomed id.
C3_GestureEffect ==
  [][ (last'.op = "effects" /\ "gesture" \in due) =>
        LET s == BeforeGestureEffect
            g == gestureState.gesture
            c == gestureState.cursor
            pt == [x |-> RoundDiv((NormScale - c.x) * canvas.width, NormScale),
                   y |-> RoundDiv(c.y * canvas.height, NormScale)]
            click == HandleInteraction(s, pt, FALSE)
        IN  /\ isExploded' = isExploded
            /\ g = "OPEN_PALM" =>
                 /\ zoomedPhotoId' = s.zoomedPhotoId
                 /\ explodeReq' = IF isExploded THEN explodeReq ELSE << TRUE >>
            /\ g = "CLOSED_FIST" =>
                 /\ explodeReq' = << FALSE >>
                 /\ zoomedPhotoId' = NoId
            /\ (g = "PINCH" /\ c.set) =>
                 /\ explodeReq' = click.explodeReq
                 /\ zoomedPhotoId' = click.zoomedPhotoId
            /\ g \in {"NONE", "POINTING"} =>
                 /\ explodeReq' = explodeReq
                 /\ zoomedPhotoId' = s.zoomedPhotoId
    ]_vars

\* C3 witness: the gesture effect has run for a PINCH whose mirrored cursor
\* lies inside a candidate photo, and that photo is now zoomed
C3_Witness ==
  /\ last.op = "effects" /\ "gesture" \in last.ran /\ last.gesture = "PINCH"
  /\ last.pre.isExploded /\ last.pre.zoomedPhotoId = NoId
  /\ zoomedPhotoId # NoId

\* the photo objects whose id is the zoomed id
ZoomedPhotos == { i \in 1..Len(photoObjects) : photoObjects[i].id = zoomedPhotoId }

\* C4: at most one photo is zoomed, and the zoomed id never changes from one
\* photo id directly to another.
C4_SingleZoom ==
  [][ /\ Cardinality(ZoomedPhotos') <= 1
      /\ (zoomedPhotoId # NoId /\ zoomedPhotoId' # NoId) => zoomedPhotoId' = zoomedPhotoId
    ]_vars

\* C4 witness: while one photo was zoomed, a primary click landed inside
\* another candidate photo, and the zoomed id is null
C4_Witness ==
  /\ PrimaryClick
  /\ last.pre.zoomedPhotoId # NoId
  /\ zoomedPhotoId = NoId
  /\ \E i \in 1..Len(photoObjects) :
       /\ EligibleHit(i, last.pt)
       /\ photoObjects[i].id # last.pre.zoomedPhotoId

\* C5: when a primary click is hit-tested (flag true, no photo zoomed), the
\* photo it zooms is a candidate that contains the point and no candidate
\* that contains the point is nearer; a photo is zoomed whenever some
\* candidate contains the point.
C5_NearestWins ==
  (PrimaryClick /\ last.pre.isExploded /\ last.pre.zoomedPhotoId = NoId) =>
     LET hits == { i \in 1..Len(photoObjects) : EligibleHit(i, last.pt) }
     IN  /\ hits = {} => zoomedPhotoId = NoId
         /\ hits # {} =>
              \E i \in hits :
                 /\ photoObjects[i].id = zoomedPhotoId
                 /\ \A j \in hits :
                      Depth(photoObjects[i], rotation) <= Depth(photoObjects[j], rotation)

\* C5 witness: the point lay inside two candidates at different depths, the
\* nearer one is later in the list, and it is the one zoomed
C5_Witness ==
  /\ PrimaryClick /\ last.pre.isExploded /\ last.pre.zoomedPhotoId = NoId
  /\ Len(photoObjects) = 2
  /\ EligibleHit(1, last.pt) /\ EligibleHit(2, last.pt)
  /\ Depth(photoObjects[2], rotation) < Depth(photoObjects[1], rotation)
  /\ zoomedPhotoId = photoObjects[2].id

\* C6: detectGesture returns NONE with a null cursor when the landmarker is
\* not initialised or no hand is found; otherwise it returns the index
\* fingertip as cursor and PINCH if the thumb-index distance is below 0.05,
\* else CLOSED_FIST if the mean fingertip-wrist distance is below 0.25, else
\* OPEN_PALM if it is above 0.4, else POINTING; the cursor is null exactly
\* when the gesture is NONE.
C6_DetectGesture ==
  last.op = "detect" =>
    LET r == gestureReq[1]
        h == probe
    IN  /\ r.gesture =
             IF ~handLandmarker \/ ~h.present THEN "NONE"
             ELSE IF 100 * h.d < 5 * NormScale THEN "PINCH"
             ELSE IF 100 * h.m < 25 * NormScale THEN "CLOSED_FIST"
             ELSE IF 100 * h.m > 40 * NormScale THEN "OPEN_PALM"
             ELSE "POINTING"
        /\ r.cursor.set <=> r.gesture # "NONE"
        /\ r.cursor.set => (r.cursor.x = h.x /\ r.cursor.y = h.y)

\* C6 witness: a hand exactly on the pinch and fist thresholds was
\* classified POINTING, with its fingertip as cursor
C6_Witness ==
  /\ last.op = "detect" /\ handLandmarker /\ probe.present
  /\ 100 * probe.d = 5 * NormScale /\ 100 * probe.m = 25 * NormScale
  /\ gestureReq[1].gesture = "POINTING"
  /\ gestureReq[1].cursor = [set |-> TRUE, x |-> probe.x, y |-> probe.y]

\* C7: the rotation never decreases; one physics step adds 0.003 when the
\* explode flag it reads is false, 0.001 when it is true, and nothing while
\* a photo is zoomed; no other step changes the rotation.
C7_Rotation ==
  [][ /\ rotation' >= rotation
      /\ last'.op = "tick" =>
           rotation' = rotation + last'.n *
              (IF zoomedPhotoId # NoId THEN 0
               ELSE IF tickExploded THEN RotScale \div 1000
               ELSE (3 * RotScale) \div 1000)
      /\ last'.op # "tick" => rotation' = rotation
    ]_vars

\* C7 witness: frames have run while a photo was zoomed, after the scene
\* had turned
C7_Witness ==
  /\ last.op = "tick"
  /\ last.pre.zoomedPhotoId # NoId /\ zoomedPhotoId # NoId
  /\ rotation > 0

\* n easing steps of one quantity toward a fixed target
RECURSIVE EaseTimes(_, _, _)
EaseTimes(n, cur, target) ==
  IF n = 0 THEN cur
  ELSE EaseTimes(n - 1, cur + RoundDiv((target - cur) * 5, 100), target)

\* C8: no physics step or interaction changes a particle's rest position or
\* explosion target; a physics step eases the current position toward the
\* explosion target when the explode flag it reads is true and toward the
\* rest position when it is false, whether or not a photo is zoomed; no
\* other step moves a particle.
C8_Particles ==
  [][ last'.op \in {"tick", "click", "effects", "render", "image", "clear",
                    "publish", "camera"} =>
        /\ DOMAIN particles' = DOMAIN particles
        /\ \A i \in DOMAIN particles :
             LET p == particles[i]
                 q == particles'[i]
             IN  /\ q.id = p.id
                 /\ q.baseX = p.baseX /\ q.baseY = p.baseY /\ q.baseZ = p.baseZ
                 /\ q.targetX = p.targetX /\ q.targetY = p.targetY
                 /\ q.targetZ = p.targetZ
                 /\ last'.op # "tick" => q = p
                 /\ (last'.op = "tick" /\ tickExploded) =>
                      /\ q.x = EaseTimes(last'.n, p.x, p.targetX)
                      /\ q.y = EaseTimes(last'.n, p.y, p.targetY)
                      /\ q.z = EaseTimes(last'.n, p.z, p.targetZ)
                 /\ (last'.op = "tick" /\ ~tickExploded) =>
                      /\ q.x = EaseTimes(last'.n, p.x, p.baseX)
                      /\ q.y = EaseTimes(last'.n, p.y, p.baseY)
                      /\ q.z = EaseTimes(last'.n, p.z, p.baseZ)
    ]_vars

\* C8 witness: frames have run while exploded with a photo zoomed, and a
\* particle is on its way from its rest position to its explosion target
C8_Witness ==
  /\ last.op = "tick"
  /\ last.pre.zoomedPhotoId # NoId /\ last.pre.isExploded /\ tickExploded
  /\ \E i \in DOMAIN particles :
       /\ particles[i].x # particles[i].baseX
       /\ particles[i].x # particles[i].targetX

\* C9 as stated: while a photo is zoomed, a physics step eases every other
\* photo toward three times its explosion target in x, y and z and opacity
\* 0, and the zoomed photo toward (0, 0, -FOCAL_LENGTH + 250) and opacity 1.
C9_PushedAwayTripleZ ==
  [][ (last'.op = "tick" /\ zoomedPhotoId # NoId) =>
        \A i \in DOMAIN photoObjects :
          LET p == photoObjects[i]
              q == photoObjects'[i]
              n == last'.n
          IN  IF p.id = zoomedPhotoId
                THEN /\ q.x = EaseTimes(n, p.x, 0)
                     /\ q.y = EaseTimes(n, p.y, 0)
                     /\ q.z = EaseTimes(n, p.z, (-FOCAL_LENGTH + 250) * PosScale)
                     /\ q.opacity = EaseTimes(n, p.opacity, OpScale)
                ELSE /\ q.x = EaseTimes(n, p.x, 3 * p.targetX)
                     /\ q.y = EaseTimes(n, p.y, 3 * p.targetY)
                     /\ q.z = EaseTimes(n, p.z, 3 * p.targetZ)
                     /\ q.opacity = EaseTimes(n, p.opacity, 0)
    ]_vars

\* C9 (amended): while a photo is zoomed, a physics step eases every other
\* photo toward (3 * targetX, 3 * targetY, targetZ), the z target not being
\* scaled, and opacity 0, and the zoomed photo toward
\* (0, 0, -FOCAL_LENGTH + 250) and opacity 1.
C9_PushedAway ==
  [][ (last'.op = "tick" /\ zoomedPhotoId # NoId) =>
        \A i \in DOMAIN photoObjects :
          LET p == photoObjects[i]
              q == photoObjects'[i]
              n == last'.n
          IN  IF p.id = zoomedPhotoId
                THEN /\ q.x = EaseTimes(n, p.x, 0)
                     /\ q.y = EaseTimes(n, p.y, 0)
                     /\ q.z = EaseTimes(n, p.z, (-FOCAL_LENGTH + 250) * PosScale)
                     /\ q.opacity = EaseTimes(n, p.opacity, OpScale)
                ELSE /\ q.x = EaseTimes(n, p.x, 3 * p.targetX)
                     /\ q.y = EaseTimes(n, p.y, 3 * p.targetY)
                     /\ q.z = EaseTimes(n, p.z, p.targetZ)
                     /\ q.opacity = EaseTimes(n, p.opacity, 0)
    ]_vars

\* C9 witness: frames have run while one of two photos was zoomed, and the
\* other photo, whose explosion target has a non-zero z, is fading
C9_Witness ==
  /\ last.op = "tick"
  /\ last.pre.zoomedPhotoId # NoId /\ zoomedPhotoId # NoId
  /\ Len(photoObjects) = 2
  /\ \E i \in 1..2 :
       /\ photoObjects[i].id # zoomedPhotoId
       /\ photoObjects[i].targetZ # 0
       /\ photoObjects[i].opacity > 0

EaseDistance == Abs(probe.target - probe.cur)

\* C10 as stated, the part that fails whatever the arithmetic: with a fixed
\* target, a quantity that has taken 200 easing steps is within 0.001 of
\* the target.
C10_ConvergesIn200 ==
  (last.op = "ease" /\ probe.n = 200) => EaseDistance <= EaseScale \div 1000

\* C10 (amended): with a fixed target an easing step never moves the
\* quantity away from the target or past it, and moves it strictly closer
\* while the distance exceeds the resolution of the arithmetic; each step
\* removes a twentieth of the distance, so after 200 steps the quantity is
\* within 0.001 of the target when it started at most 20 away.
C10_Easing ==
  [][ last'.op = "ease" =>
        /\ EaseDistance' <= EaseDistance
        /\ probe.cur <= probe.target =>
             (probe.cur <= probe'.cur /\ probe'.cur <= probe.target)
        /\ probe.cur >= probe.target =>
             (probe.cur >= probe'.cur /\ probe'.cur >= probe.target)
        /\ EaseDistance >= EaseScale \div 10000 => EaseDistance' < EaseDistance
        /\ (probe'.n = 200 /\ Abs(probe.target - probe.start) <= 20 * EaseScale) =>
             EaseDistance' <= EaseScale \div 1000
    ]_vars

\* C10 witness: a quantity that started 20 away from its target has taken
\* 200 steps and is within 0.001 of it
C10_Witness ==
  /\ last.op = "ease" /\ probe.n = 200
  /\ Abs(probe.target - probe.start) = 20 * EaseScale
  /\ EaseDistance <= EaseScale \div 1000

\* C11: the particle population is regenerated exactly when the size class
\* changes: when the particle effect runs after a resize that left the
\* class as it was, the particles keep their current, rest and explosion
\* positions, and no other step replaces the population.
C11_RegeneratedOnClassChange ==
  [][ /\ (last'.op = "effects" /\ "particles" \in due
            /\ (IF isMobile THEN 1200 ELSE 1500) = particleCount) =>
           particles' = particles
      /\ (last'.op = "effects" /\ "particles" \in due
            /\ (IF isMobile THEN 1200 ELSE 1500) # particleCount) =>
           particleCount' = (IF isMobile THEN 1200 ELSE 1500)
      /\ last'.op \notin {"effects", "tick"} => particles' = particles
    ]_vars

\* C12: once the particle effect has run for the latest size class, there
\* are 1200 particles if the window is narrower than 768 and 1500
\* otherwise, the particle at index i has id i (so the ids are 0..N-1
\* without duplicates), and a particle just created is at its rest position.
C12_Population ==
  /\ ("particles" \notin due /\ resizeReq = << >>) =>
       /\ particleCount = (IF canvas.width < 768 THEN 1200 ELSE 1500)
       /\ Len(particles) = (particleCount + TrackStride - 1) \div TrackStride
       /\ \A k \in DOMAIN particles :
            /\ particles[k].id = (k - 1) * TrackStride
            /\ particles[k].id \in 0..(particleCount - 1)
       /\ \A j, k \in DOMAIN particles : j # k => particles[j].id # particles[k].id
  /\ (last.op = "effects" /\ "particles" \in last.ran) =>
       \A k \in DOMAIN particles :
          /\ particles[k].x = particles[k].baseX
          /\ particles[k].y = particles[k].baseY
          /\ particles[k].z = particles[k].baseZ

\* C12 witness: after frames had run on an exploded desktop tree, the window
\* was narrowed below the breakpoint and the particle effect has created
\* the 1200 particles of the mobile tree
C12_Witness ==
  /\ last.op = "effects" /\ "particles" \in last.ran
  /\ canvas.width < 768 /\ particleCount = 1200
  /\ tickExploded /\ nTicks > 0
  /\ \A k \in DOMAIN particles : particles[k].x = particles[k].baseX


\* the photo object at index k was made for the image img
MadeFor(obj, img) ==
  /\ obj.width = PHOTO_WIDTH * PosScale
  /\ obj.height = RoundDiv(PHOTO_WIDTH * PosScale * img.height, img.width)
  /\ obj.targetX = TargetChoices[img.draw].x * PosScale
  /\ obj.targetY = TargetChoices[img.draw].y * PosScale
  /\ obj.targetZ = TargetChoices[img.draw].z * PosScale
  /\ obj.baseX = 0 /\ obj.baseY = 0 /\ obj.baseZ = 0

\* the ids of the photo objects, in order
PhotoIds(objs) == [k \in DOMAIN objs |-> objs[k].id]

\* C13: once the photo effect has run for the rendered photo list, there is
\* one photo object per image, in the order of the images.  The effect run
\* after an append leaves every existing object as it was, at its index,
\* and adds the new ones at the end at (0,0,0) with opacity 0; the effect
\* run after a clear empties the set and sets the zoomed id to null.  No
\* other step adds, removes or reorders photo objects.
C13_PhotoSync ==
  /\ [](("photos" \notin due) =>
          /\ Len(photoObjects) = Len(photos)
          /\ \A k \in DOMAIN photoObjects : MadeFor(photoObjects[k], photos[k]))
  /\ [][ /\ (last'.op = "effects" /\ "photos" \in due /\ Len(photos) > 0) =>
              /\ Len(photoObjects') = Len(photos)
              /\ \A k \in DOMAIN photoObjects : photoObjects'[k] = photoObjects[k]
              /\ \A k \in (Len(photoObjects) + 1)..Len(photoObjects') :
                   /\ photoObjects'[k].x = 0 /\ photoObjects'[k].y = 0
                   /\ photoObjects'[k].z = 0 /\ photoObjects'[k].opacity = 0
                   /\ MadeFor(photoObjects'[k], photos[k])
         /\ (last'.op = "effects" /\ "photos" \in due /\ Len(photos) = 0) =>
              /\ photoObjects' = << >>
              /\ zoomedPhotoId' = NoId
         /\ ~(last'.op = "effects" /\ "photos" \in due) =>
              PhotoIds(photoObjects') = PhotoIds(photoObjects)
       ]_vars

\* C13 witness: the photo effect has appended a second photo object behind
\* one that had already left the centre and become visible
C13_Witness ==
  /\ last.op = "effects" /\ "photos" \in last.ran
  /\ Len(photoObjects) = 2 /\ Len(photos) = 2
  /\ photoObjects[1].opacity > 0 /\ photoObjects[1].z # 0
  /\ photoObjects[2].opacity = 0 /\ photoObjects[2].z = 0


\* C14: after the component is unmounted no step of either loop runs any
\* more: no animation frame (tick) and no iteration of the detection loop.
C14_LoopsCancelled ==
  [][ ~mounted => last'.op \notin {"tick", "loop", "publish"} ]_vars


\* C15: a startCamera whose initialisation fails does not start the
\* detection loop.  While the loop is not running the gesture state is
\* {NONE, null} with no update queued, no effect run requests the explode
\* flag or zooms a photo, and clicks still work: a primary click on the
\* collapsed tree requests the explosion, a right click requests the collapse
\* and clears the zoomed id.  startCamera can be taken again after a failure.
C15_InitFailure ==
  /\ [](~loopRunning =>
          /\ gestureState = NoGesture
          /\ gestureReq = << >>
          /\ pinchRuns = 0)
  /\ [][ /\ (last'.op = "camera" /\ ~last'.right) =>
              /\ ~loopRunning' /\ ~handLandmarker'
              /\ gestureState' = NoGesture /\ gestureReq' = << >>
         /\ (~loopRunning /\ last'.op = "effects") =>
              /\ explodeReq' = explodeReq
              /\ zoomedPhotoId' \in {zoomedPhotoId, NoId}
              /\ zoomedPhotoId' # zoomedPhotoId => ("photos" \in due /\ Len(photos) = 0)
         /\ (~loopRunning /\ last'.op = "click" /\ ~last'.right /\ ~isExploded) =>
              explodeReq' = << TRUE >>
         /\ (~loopRunning /\ last'.op = "click" /\ last'.right) =>
              /\ explodeReq' = << FALSE >>
              /\ zoomedPhotoId' = NoId
       ]_vars

\* C15 witness: startCamera was taken again right after a failed
\* initialisation, which had left the loop stopped and the gesture state
\* {NONE, null}, and this time it has started the detection loop
C15_Witness ==
  /\ last.op = "camera" /\ last.right /\ last.n = 1
  /\ loopRunning /\ handLandmarker
  /\ gestureState = NoGesture /\ gestureReq = << >>


\* C16: while the component is mounted exactly one animation frame of the
\* render loop is pending, and it is the one requestRef.current names; once
\* the tick effect has run for the last render, the pending callback is the
\* tick of that render.  So every tick step runs the only pending callback
\* and leaves one pending.
C16_OneFramePending ==
  /\ [](mounted =>
          /\ Len(frames) = 1
          /\ frames[1].ref
          /\ ("tick" \notin due) => frames[1].exploded = isExploded)
  /\ [][ last'.op = "tick" => (Len(frames) = 1 /\ Len(frames') = 1) ]_vars

\* C16 witness: after frames had run, a render changed a dependency of tick
\* (the explode flag), the tick effect has run again, and one frame, the one
\* of the new tick, is pending
C16_Witness ==
  /\ mounted
  /\ last.op = "effects" /\ "tick" \in last.ran
  /\ nTicks > 0
  /\ Len(frames) = 1 /\ frames[1].ref /\ frames[1].exploded


----------------------------------------------------------------------------
(* draw(): the list of drawables and its order *)

STAR_RADIUS == 35
STAR_DEPTH == 10
STAR_POINTS == 5

\* four faces are pushed for each point
STAR_FACES == 4 * STAR_POINTS

\* Math.cos of the angles (i * 72 - 18) and (i * 72 + 18) degrees, i = 0..4,
\* in 1/TrigScale
StarCosOuter == << 9511, 5878, -5878, -9511, 0 >>
StarCosInner == << 9511, 0, -9511, -5878, 5878 >>

\* x and z of vertex v (0..11) of STAR_MODEL: the two tips on the axis, then
\* outer and inner ring vertices in turn; innerRadius = STAR_RADIUS * 0.4
StarVertex(v) ==
  IF v = 0 THEN [x |-> 0, z |-> STAR_DEPTH * PosScale]
  ELSE IF v = 1 THEN [x |-> 0, z |-> -(STAR_DEPTH * PosScale)]
  ELSE IF v % 2 = 0
    THEN [x |-> RoundDiv(StarCosOuter[(v - 2) \div 2 + 1] * STAR_RADIUS * PosScale, TrigScale),
          z |-> 0]
  ELSE [x |-> RoundDiv(StarCosInner[(v - 3) \div 2 + 1] * STAR_RADIUS * 4, TrigScale),
        z |-> 0]

\* face k (1..20) of STAR_MODEL: four faces for each of the five points
StarFace(k) ==
  LET i == (k - 1) \div 4
      outer == 2 + i * 2
      inner == 2 + i * 2 + 1
      nextOuter == 2 + ((i + 1) % 5) * 2
  IN  CASE (k - 1) % 4 = 0 -> << 0, outer, inner >>
        [] (k - 1) % 4 = 1 -> << 0, inner, nextOuter >>
        [] (k - 1) % 4 = 2 -> << 1, inner, outer >>
        [] OTHER -> << 1, nextOuter, inner >>

\* three times avgZ of face k: the sum of the rotated z of its vertices
StarFaceDepth3(k, rot) ==
  LET f == StarFace(k)
  IN  Depth(StarVertex(f[1]), rot) + Depth(StarVertex(f[2]), rot)
        + Depth(StarVertex(f[3]), rot)

\* allObjects before the sort: the particles, the photos, and the star faces
\* when no photo is zoomed.  key is three times sortZ; seq is the index at
\* which the entry was pushed.
DrawListOf(parts, objs, rot, zoomed) ==
  LET np == Len(parts)
      no == Len(objs)
      ns == IF zoomed = NoId THEN STAR_FACES ELSE 0
  IN  [k \in 1..(np + no + ns) |->
         IF k <= np
           THEN [type |-> "particle", seq |-> k, key |-> 3 * Depth(parts[k], rot)]
         ELSE IF k <= np + no
           THEN [type |-> "photo", seq |-> k,
                 key |-> IF zoomed = objs[k - np].id
                           THEN 3 * objs[k - np].z
                           ELSE 3 * Depth(objs[k - np], rot)]
         ELSE [type |-> "starFace", seq |-> k,
               key |-> StarFaceDepth3(k - np - no, rot)]]

\* insert e before the first entry that is not farther than e
RECURSIVE InsertDrawable_BeforeEqual(_, _)
InsertDrawable_BeforeEqual(e, sorted) ==
  IF sorted = << >> THEN << e >>
  ELSE IF Head(sorted).key > e.key
    THEN << Head(sorted) >> \o InsertDrawable_BeforeEqual(e, Tail(sorted))
  ELSE << e >> \o sorted

\* insert e into the sorted list after every entry that is not nearer
RECURSIVE InsertDrawable(_, _)
InsertDrawable(e, sorted) ==
  IF sorted = << >> THEN << e >>
  ELSE IF Head(sorted).key >= e.key
    THEN << Head(sorted) >> \o InsertDrawable(e, Tail(sorted))
  ELSE << e >> \o sorted

\* allObjects.sort((a, b) => b.sortZ - a.sortZ): descending and stable
RECURSIVE SortDrawList(_)
SortDrawList(list) ==
  IF list = << >> THEN << >>
  ELSE InsertDrawable(list[Len(list)], SortDrawList(SubSeq(list, 1, Len(list) - 1)))

\* the list draw() builds from the scene and the order in which it draws it
DrawList == DrawListOf(particles, photoObjects, rotation, zoomedPhotoId)

DrawOrder == SortDrawList(DrawList)

\* d is in non-increasing key order, equal keys in the order of seq
RECURSIVE FarthestFirst(_)
FarthestFirst(d) ==
  \/ Len(d) < 2
  \/ /\ \/ d[1].key > d[2].key
        \/ d[1].key = d[2].key /\ d[1].seq < d[2].seq
     /\ FarthestFirst(Tail(d))

\* C17: the list draw() builds holds every particle, then every photo, then
\* the 20 star faces when no photo is zoomed and no star face otherwise; it
\* is drawn farthest first (non-increasing sort depth), entries of equal
\* depth in the order in which they were pushed; the order drawn is a
\* rearrangement of the list, and sorting it again leaves it as it is.
C17_DrawOrder ==
  LET list == DrawList
      drawn == SortDrawList(list)
  IN  /\ Len(list) = Len(particles) + Len(photoObjects)
                        + (IF zoomedPhotoId = NoId THEN 20 ELSE 0)
      /\ \A k \in DOMAIN list :
           /\ list[k].seq = k
           /\ list[k].type = "particle" <=> k <= Len(particles)
           /\ list[k].type = "starFace" <=> k > Len(particles) + Len(photoObjects)
      /\ Len(drawn) = Len(list)
      /\ { drawn[k] : k \in DOMAIN drawn } = { list[k] : k \in DOMAIN list }
      /\ FarthestFirst(drawn)
      /\ SortDrawList(drawn) = drawn

\* C17 witness: a frame of a rotated scene without zoomed photo in which the
\* list is not in depth order as built and holds entries of equal depth
C17_Witness ==
  /\ last.op = "tick" /\ rotation # 0
  /\ zoomedPhotoId = NoId /\ Len(photoObjects) = 2
  /\ LET list == DrawList
     IN  /\ SortDrawList(list) # list
         /\ \E i, j \in DOMAIN list : i < j /\ list[i].key = list[j].key
         /\ \E i, j \in DOMAIN list : i < j /\ list[i].key < list[j].key


\* C18: in every reachable state a non-null zoomed id implies that the
\* explode flag is true.
C18_ZoomedImpliesExploded == zoomedPhotoId # NoId => isExploded


\* C19: one published PINCH result runs the click logic of the gesture
\* effect once: between the render of one published result and the render
\* of the next, handleInteraction is called by the effect at most once (so a
\* PINCH published while the tree is collapsed explodes it and zooms nothing).
C19_PinchRunsOnce == pinchRuns <= 1


\* the live photo objects whose id is id
LivePhotos(objs, id) == { k \in DOMAIN objs : objs[k].id = id }

\* C20: a non-null zoomed id is the id of a photo object in the live set, so
\* never of a photo that has been cleared; and whenever a step sets the
\* zoomed id to an id, a live photo object has that id and its opacity is
\* above 0.5 at that step.
C20_ZoomedIsLive ==
  /\ [](zoomedPhotoId # NoId => LivePhotos(photoObjects, zoomedPhotoId) # {})
  /\ [][ (zoomedPhotoId' # NoId /\ zoomedPhotoId' # zoomedPhotoId) =>
           /\ last'.op \in {"click", "effects"}
           /\ \E k \in LivePhotos(photoObjects', zoomedPhotoId') :
                2 * photoObjects'[k].opacity > OpScale
       ]_vars

\* C20 witness: a click has zoomed a visible photo while the live set also
\* held a photo just appended, not yet half opaque
C20_Witness ==
  /\ last.op = "click" /\ last.pre.zoomedPhotoId = NoId
  /\ zoomedPhotoId # NoId
  /\ Len(photoObjects) = 2
  /\ \E k \in LivePhotos(photoObjects, zoomedPhotoId) : 2 * photoObjects[k].opacity > OpScale
  /\ \E k \in DOMAIN photoObjects : 2 * photoObjects[k].opacity <= OpScale

====
